---- MODULE Spec2Model ----
(***************************************************************************)
(* Model of the lot sizing repository: the problem instance (class Input   *)
(* of lot_sizing/input.py), its schedule evaluation, its textual form, and *)
(* the MIP formulation (class MipModel of lot_sizing/model.py) with the    *)
(* schedule decoding of main.py.                                           *)
(*                                                                         *)
(* Python lists are TLA+ sequences: list index i is sequence index i + 1.  *)
(* Python dicts keyed by range(n) are functions on 0..n-1.                 *)
(***************************************************************************)
EXTENDS Integers, Sequences, FiniteSets, TLC

VARIABLES ins, schedule, query, ret, text, mip

vars == <<ins, schedule, query, ret, text, mip>>

(***************************************************************************)
(* Bounds of the model.                                                    *)
(***************************************************************************)
\* largest number of time periods of an instance
MaxPeriods == 3
\* largest number of machine types of an instance
MaxTypes == 2
\* largest transition cost of an instance
MaxCost == 1
\* the inventory cost of the instances whose demand varies
InventoryCost == 2

(***************************************************************************)
(* Python values: results and raised exceptions, lists, dicts.             *)
(***************************************************************************)
Ok(v) == [ok |-> TRUE, val |-> v, err |-> ""]

Raise(e) == [ok |-> FALSE, val |-> 0, err |-> e]

\* range(n)
Range(n) == 0 .. (n - 1)

\* [x] * n : the empty list when n <= 0
Repeat(x, n) == [k \in 1 .. n |-> x]

\* sum(list)
RECURSIVE SumList(_)
SumList(list) ==
    IF list = <<>> THEN 0 ELSE Head(list) + SumList(Tail(list))

\* the sum of f[k] for k in lo..hi
RECURSIVE SumOver(_, _, _)
SumOver(f, lo, hi) ==
    IF lo > hi THEN 0 ELSE f[lo] + SumOver(f, lo + 1, hi)

\* list[:stop] : a negative stop counts from the end, and the bounds are clamped
SliceTo(list, stop) ==
    LET n == Len(list)
        s == IF stop < 0 THEN stop + n ELSE stop
        e == IF s < 0 THEN 0 ELSE IF s > n THEN n ELSE s
    IN  SubSeq(list, 1, e)

\* list[i] with every negative index rejected
ListGetNoWrap(list, i) ==
    IF i < 0 \/ i >= Len(list) THEN Raise("IndexError") ELSE Ok(list[i + 1])

\* list[i] : a negative index counts from the end; IndexError out of range
ListGet(list, i) ==
    LET n == Len(list)
        k == IF i < 0 THEN i + n ELSE i
    IN  IF k < 0 \/ k >= n THEN Raise("IndexError") ELSE Ok(list[k + 1])

\* [index for index, item in enumerate(list) if item == x], ascending
RECURSIVE IndicesOf(_, _, _)
IndicesOf(list, x, index) ==
    IF index >= Len(list) THEN <<>>
    ELSE IF list[index + 1] = x
         THEN <<index>> \o IndicesOf(list, x, index + 1)
         ELSE IndicesOf(list, x, index + 1)

(***************************************************************************)
(* class Input: the queries.  An instance is a record with the fields      *)
(* num_time_periods, num_types, demand, inventory_cost, transition_cost.   *)
(***************************************************************************)
\* self.demand[machine_type] : a dict lookup, KeyError for a missing key
DemandRow(self, machine_type) ==
    IF machine_type \in DOMAIN self.demand
    THEN Ok(self.demand[machine_type])
    ELSE Raise("KeyError")

get_demand(self, machine_type, time_period) ==
    IF time_period >= self.num_time_periods THEN Raise("InputError")
    ELSE IF machine_type >= self.num_types THEN Raise("InputError")
    ELSE LET row == DemandRow(self, machine_type)
         IN  IF ~row.ok THEN row ELSE ListGet(row.val, time_period)

\* get_overall_demand with the slice [:time_period], one entry short
get_overall_demand_exclusive(self, machine_type, time_period) ==
    IF time_period >= self.num_time_periods THEN Raise("InputError")
    ELSE IF machine_type >= self.num_types THEN Raise("InputError")
    ELSE LET row == DemandRow(self, machine_type)
         IN  IF ~row.ok THEN row
             ELSE Ok(SumList(SliceTo(row.val, time_period)))

get_overall_demand(self, machine_type, time_period) ==
    IF time_period >= self.num_time_periods THEN Raise("InputError")
    ELSE IF machine_type >= self.num_types THEN Raise("InputError")
    ELSE LET row == DemandRow(self, machine_type)
         IN  IF ~row.ok THEN row
             ELSE Ok(SumList(SliceTo(row.val, time_period + 1)))

(***************************************************************************)
(* class Input: feasibility of a schedule.                                 *)
(***************************************************************************)
\* schedule[time_slot:] = [num_produced] * len(schedule[time_slot:])
AssignFrom(list, time_slot, num_produced) ==
    [k \in 1 .. Len(list) |->
        IF k - 1 >= time_slot THEN num_produced ELSE list[k]]

\* the loop of __compute_num_produced_item_schedule from time_slot on
RECURSIVE NumProducedLoop(_, _, _, _, _)
NumProducedLoop(machine_type, solution, time_slot, num_produced, list) ==
    IF time_slot >= Len(solution) THEN list
    ELSE IF solution[time_slot + 1] = machine_type
         THEN NumProducedLoop(machine_type, solution, time_slot + 1,
                              num_produced + 1,
                              AssignFrom(list, time_slot, num_produced + 1))
         ELSE NumProducedLoop(machine_type, solution, time_slot + 1,
                              num_produced, list)

compute_num_produced_item_schedule(self, machine_type, solution) ==
    NumProducedLoop(machine_type, solution, 0, 0,
                    Repeat(0, self.num_time_periods))

\* Backlog with <= for <: production must exceed the demand
BacklogNotExceeded(self, produced, machine_type, time_slot) ==
    produced[machine_type][time_slot + 1]
        <= get_overall_demand(self, machine_type, time_slot).val

\* Backlog with > for <: the comparison turned round
BacklogReversed(self, produced, machine_type, time_slot) ==
    produced[machine_type][time_slot + 1]
        > get_overall_demand(self, machine_type, time_slot).val

\* the comparison of is_feasible for one (machine_type, time_slot)
Backlog(self, produced, machine_type, time_slot) ==
    produced[machine_type][time_slot + 1]
        < get_overall_demand(self, machine_type, time_slot).val

is_feasible(self, solution) ==
    IF Len(solution) # self.num_time_periods THEN Raise("InputError")
    ELSE LET produced ==
                 [machine_type \in Range(self.num_types) |->
                     compute_num_produced_item_schedule(self, machine_type,
                                                        solution)]
         IN  Ok(~ \E machine_type \in Range(self.num_types),
                      time_slot \in Range(self.num_time_periods) :
                      Backlog(self, produced, machine_type, time_slot))

(***************************************************************************)
(* class Input: the cost of a schedule.                                    *)
(***************************************************************************)
\* TransitionLoop in which an idle period resets last_state
RECURSIVE TransitionLoopIdleResets(_, _, _, _, _)
TransitionLoopIdleResets(self, sched, k, last_state, transition_cost) ==
    IF k > Len(sched) THEN transition_cost
    ELSE LET state == sched[k]
         IN  IF state = -1
             THEN TransitionLoopIdleResets(self, sched, k + 1, -1,
                                           transition_cost)
             ELSE IF state # last_state
             THEN TransitionLoopIdleResets(self, sched, k + 1, state,
                      IF last_state # -1
                      THEN transition_cost
                               + self.transition_cost[last_state][state + 1]
                      ELSE transition_cost)
             ELSE TransitionLoopIdleResets(self, sched, k + 1, last_state,
                                           transition_cost)

\* the loop of compute_transition_cost over schedule[k..]
RECURSIVE TransitionLoop(_, _, _, _, _)
TransitionLoop(self, sched, k, last_state, transition_cost) ==
    IF k > Len(sched) THEN transition_cost
    ELSE LET state == sched[k]
         IN  IF state = -1
             THEN TransitionLoop(self, sched, k + 1, last_state,
                                 transition_cost)
             ELSE IF state # last_state
             THEN TransitionLoop(self, sched, k + 1, state,
                      IF last_state # -1
                      THEN transition_cost
                               + self.transition_cost[last_state][state + 1]
                      ELSE transition_cost)
             ELSE TransitionLoop(self, sched, k + 1, last_state,
                                 transition_cost)

compute_transition_cost(self, sched) ==
    Ok(TransitionLoop(self, sched, 1, -1, 0))

\* Differences with every difference clamped at zero
ClampedDifferences(demand, production) ==
    LET n == IF Len(demand) < Len(production)
             THEN Len(demand) ELSE Len(production)
    IN  [k \in 1 .. n |->
            IF demand[k] < production[k] THEN 0
            ELSE demand[k] - production[k]]

\* zip(demand, production) and the list of differences d - p
Differences(demand, production) ==
    LET n == IF Len(demand) < Len(production)
             THEN Len(demand) ELSE Len(production)
    IN  [k \in 1 .. n |-> demand[k] - production[k]]

\* PadDemand without the padding
UnpaddedDemand(self, demand, production) == demand

\* demand += [self.num_time_periods - 1] * (len(production) - len(demand))
PadDemand(self, demand, production) ==
    demand \o Repeat(self.num_time_periods - 1,
                     Len(production) - Len(demand))

\* the loop of compute_inventory_cost from machine_type on
RECURSIVE InventoryLoop(_, _, _, _)
InventoryLoop(self, sched, machine_type, inventory_cost) ==
    IF machine_type >= self.num_types THEN Ok(inventory_cost)
    ELSE LET production == IndicesOf(sched, machine_type, 0)
             demand == PadDemand(self,
                           IndicesOf(self.demand[machine_type], 1, 0),
                           production)
         IN  IF Len(demand) # Len(production) THEN Raise("AssertionError")
             ELSE InventoryLoop(self, sched, machine_type + 1,
                      inventory_cost
                          + SumList(Differences(demand, production))
                                * self.inventory_cost)

compute_inventory_cost(self, sched) ==
    InventoryLoop(self, sched, 0, 0)

compute_costs(self, sched) ==
    LET transition == compute_transition_cost(self, sched)
        inventory == compute_inventory_cost(self, sched)
    IN  IF ~transition.ok THEN transition
        ELSE IF ~inventory.ok THEN inventory
        ELSE Ok(transition.val + inventory.val)

(***************************************************************************)
(* The instances and schedules the model draws its inputs from.            *)
(***************************************************************************)
\* the sentinel of an idle period in a schedule
Idle == -1

\* demand rows of 0/1 entries, one per machine type
Demands(num_types, num_time_periods) ==
    [Range(num_types) -> [1 .. num_time_periods -> 0 .. 1]]

\* transition cost rows with a zero diagonal and entries in 0..MaxCost
TransitionCosts(num_types) ==
    LET pairs == {pr \in Range(num_types) \X Range(num_types) :
                     pr[1] # pr[2]}
    IN  {[i \in Range(num_types) |->
             [j \in 1 .. num_types |->
                 IF i = j - 1 THEN 0 ELSE c[<<i, j - 1>>]]] :
         c \in [pairs -> 0 .. MaxCost]}

\* the transition cost rows charging 1 for every change of type
UnitTransitionCost(num_types) ==
    [i \in Range(num_types) |->
        [j \in 1 .. num_types |-> IF i = j - 1 THEN 0 ELSE 1]]

\* the demand can be met without backlog: through every period p at most
\* p + 1 items are due
Satisfiable(demand, num_types, num_time_periods) ==
    \A p \in Range(num_time_periods) :
        SumList([k \in 1 .. num_types |->
                    SumList(SubSeq(demand[k - 1], 1, p + 1))]) <= p + 1

\* instances of every demand that can be met, with fixed costs
DemandInstances ==
    UNION {[num_time_periods : {num_time_periods},
            num_types : {num_types},
            demand : {d \in Demands(num_types, num_time_periods) :
                         Satisfiable(d, num_types, num_time_periods)},
            inventory_cost : {InventoryCost},
            transition_cost : {UnitTransitionCost(num_types)}] :
           num_types \in 1 .. MaxTypes,
           num_time_periods \in 1 .. MaxPeriods}

\* instances of every transition cost, with no demand
CostInstances ==
    UNION {[num_time_periods : {MaxPeriods},
            num_types : {num_types},
            demand : {[t \in Range(num_types) |-> Repeat(0, MaxPeriods)]},
            inventory_cost : {InventoryCost},
            transition_cost : TransitionCosts(num_types)] :
           num_types \in 1 .. MaxTypes}

\* schedules of a given length: a machine type or Idle per period
SchedulesOf(num_types, length) ==
    [1 .. length -> {Idle} \cup Range(num_types)]

\* the schedules of an instance that is_feasible accepts
FeasibleSchedules(self) ==
    {sched \in SchedulesOf(self.num_types, self.num_time_periods) :
        LET res == is_feasible(self, sched) IN res.ok /\ res.val = TRUE}

\* the schedules handed to an instance: of its length and one shorter, and
\* one that is longer
Schedules(self) ==
    SchedulesOf(self.num_types, self.num_time_periods)
        \cup SchedulesOf(self.num_types, self.num_time_periods - 1)
        \cup {Repeat(Idle, self.num_time_periods + 1)}

\* the schedules of every length up to MaxPeriods
AllSchedules(self) ==
    UNION {SchedulesOf(self.num_types, length) : length \in 0 .. MaxPeriods}

NoQuery == [machine_type |-> 0, time_period |-> 0]

Call(op, machine_type, time_period, res) ==
    [op |-> op, machine_type |-> machine_type, time_period |-> time_period,
     res |-> res]

NoCall == Call("none", 0, 0, Ok(0))

\* an assignment of no variable
NoAssignment ==
    [production |-> <<>>, state |-> <<>>, stock |-> <<>>, transition |-> <<>>]

\* before a MipModel is constructed
NoMip ==
    [phase |-> "none", status |-> "none", assignment |-> NoAssignment,
     objective |-> 0]

(***************************************************************************)
(* Spec: evaluation of schedules, one action per method of Input.          *)
(***************************************************************************)
\* a method is called on the instance as the fixture set it up, or on the
\* schedule that create_schedule returned; no method changes a field
Callable == ret.op \in {"none", "create_schedule"}

Init ==
    /\ ins \in DemandInstances
    /\ schedule \in Schedules(ins)
    /\ query = NoQuery
    /\ ret = NoCall
    /\ text = <<>>
    /\ mip = NoMip

IsFeasible ==
    /\ Callable
    /\ ret' = Call("is_feasible", 0, 0, is_feasible(ins, schedule))
    /\ UNCHANGED <<ins, schedule, query, text, mip>>

ComputeTransitionCost ==
    /\ Callable
    /\ ret' = Call("compute_transition_cost", 0, 0,
                   compute_transition_cost(ins, schedule))
    /\ UNCHANGED <<ins, schedule, query, text, mip>>

ComputeInventoryCost ==
    /\ Callable
    /\ ret' = Call("compute_inventory_cost", 0, 0,
                   compute_inventory_cost(ins, schedule))
    /\ UNCHANGED <<ins, schedule, query, text, mip>>

ComputeCosts ==
    /\ Callable
    /\ ret' = Call("compute_costs", 0, 0, compute_costs(ins, schedule))
    /\ UNCHANGED <<ins, schedule, query, text, mip>>

Next ==
    \/ IsFeasible
    \/ ComputeInventoryCost
    \/ ComputeCosts

Spec == Init /\ [][Next]_vars

(***************************************************************************)
(* SpecQuery: the demand queries of Input.                                 *)
(***************************************************************************)
\* the indices handed to the queries: in range, too large, and negative
TypeArguments(self) == -1 .. self.num_types

PeriodArguments(self) ==
    (-(self.num_time_periods + 1)) .. self.num_time_periods

InitQuery ==
    /\ ins \in DemandInstances
    /\ schedule = <<>>
    /\ query \in [machine_type : TypeArguments(ins),
                  time_period : PeriodArguments(ins)]
    /\ ret = NoCall
    /\ text = <<>>
    /\ mip = NoMip

GetDemand ==
    /\ Callable
    /\ ret' = Call("get_demand", query.machine_type, query.time_period,
                   get_demand(ins, query.machine_type, query.time_period))
    /\ UNCHANGED <<ins, schedule, query, text, mip>>

GetOverallDemand ==
    /\ Callable
    /\ ret' = Call("get_overall_demand", query.machine_type,
                   query.time_period,
                   get_overall_demand(ins, query.machine_type,
                                      query.time_period))
    /\ UNCHANGED <<ins, schedule, query, text, mip>>

NextQuery ==
    \/ GetDemand
    \/ GetOverallDemand

SpecQuery == InitQuery /\ [][NextQuery]_vars

(***************************************************************************)
(* SpecTransition: the transition cost under every transition cost matrix. *)
(***************************************************************************)
InitTransition ==
    /\ ins \in CostInstances
    /\ schedule \in AllSchedules(ins)
    /\ query = NoQuery
    /\ ret = NoCall
    /\ text = <<>>
    /\ mip = NoMip

NextTransition == ComputeTransitionCost

SpecTransition == InitTransition /\ [][NextTransition]_vars

(***************************************************************************)
(* class Input: the file format.  A text is a sequence of characters.      *)
(***************************************************************************)
DigitChars == <<"0", "1", "2", "3", "4", "5", "6", "7", "8", "9">>

NewLine == "\n"

\* the characters str.strip and str.split treat as whitespace
IsSpace(c) == c \in {" ", "\t", NewLine}

IsDigit(c) == \E d \in 1 .. 10 : DigitChars[d] = c

DigitValue(c) == (CHOOSE d \in 1 .. 10 : DigitChars[d] = c) - 1

\* str(n) of a natural number
RECURSIVE NatToStr(_)
NatToStr(n) ==
    IF n < 10 THEN <<DigitChars[n + 1]>>
    ELSE NatToStr(n \div 10) \o <<DigitChars[(n % 10) + 1]>>

\* str(n) of an int
IntToStr(n) == IF n < 0 THEN <<"-">> \o NatToStr(-n) ELSE NatToStr(n)

\* the value of a sequence of digits
RECURSIVE DigitsValue(_, _)
DigitsValue(digits, acc) ==
    IF digits = <<>> THEN acc
    ELSE DigitsValue(Tail(digits), 10 * acc + DigitValue(Head(digits)))

\* int(token) : an optional sign and digits, ValueError otherwise
ParseInt(token) ==
    LET signed == token # <<>> /\ Head(token) \in {"-", "+"}
        digits == IF signed THEN Tail(token) ELSE token
    IN  IF digits = <<>> \/ \E k \in 1 .. Len(digits) : ~IsDigit(digits[k])
        THEN Raise("ValueError")
        ELSE IF signed /\ Head(token) = "-"
             THEN Ok(-DigitsValue(digits, 0))
             ELSE Ok(DigitsValue(digits, 0))

\* separator.join(parts)
RECURSIVE Join(_, _)
Join(separator, parts) ==
    IF parts = <<>> THEN <<>>
    ELSE IF Len(parts) = 1 THEN Head(parts)
    ELSE Head(parts) \o separator \o Join(separator, Tail(parts))

\* str(list) of a list of ints: "[1, 0, 0]"
ListToStr(list) ==
    <<"[">> \o Join(<<",", " ">>, [k \in 1 .. Len(list) |-> IntToStr(list[k])])
            \o <<"]">>

\* the values of a dict keyed by range(n), in insertion order
DictValues(dict) ==
    [k \in 1 .. Cardinality(DOMAIN dict) |-> dict[k - 1]]

\* Input.__str__
Str(self) ==
    IntToStr(self.num_time_periods) \o <<NewLine>>
        \o IntToStr(self.num_types) \o <<NewLine>>
        \o Join(<<NewLine>>,
                [k \in 1 .. Cardinality(DOMAIN self.demand) |->
                    ListToStr(DictValues(self.demand)[k])])
        \o <<NewLine>> \o IntToStr(self.inventory_cost) \o <<NewLine>>
        \o Join(<<NewLine>>,
                [k \in 1 .. Cardinality(DOMAIN self.transition_cost) |->
                    ListToStr(DictValues(self.transition_cost)[k])])

\* the lines of a text, as iterating over the file yields them: each ends
\* with its line break, but for a last line without one
RECURSIVE SplitLines(_)
SplitLines(chars) ==
    IF chars = <<>> THEN <<>>
    ELSE LET breaks == {k \in 1 .. Len(chars) : chars[k] = NewLine}
         IN  IF breaks = {} THEN <<chars>>
             ELSE LET first == CHOOSE k \in breaks : \A j \in breaks : k <= j
                  IN  <<SubSeq(chars, 1, first)>>
                          \o SplitLines(SubSeq(chars, first + 1, Len(chars)))

\* line.strip()
RECURSIVE StripLeft(_)
StripLeft(chars) ==
    IF chars # <<>> /\ IsSpace(Head(chars)) THEN StripLeft(Tail(chars))
    ELSE chars

RECURSIVE StripRight(_)
StripRight(chars) ==
    IF chars # <<>> /\ IsSpace(chars[Len(chars)])
    THEN StripRight(SubSeq(chars, 1, Len(chars) - 1))
    ELSE chars

Strip(chars) == StripRight(StripLeft(chars))

\* line.split() : the words between runs of whitespace
RECURSIVE SplitWords(_)
SplitWords(chars) ==
    LET rest == StripLeft(chars)
        spaces == {k \in 1 .. Len(rest) : IsSpace(rest[k])}
        end == IF spaces = {} THEN Len(rest) + 1
               ELSE CHOOSE k \in spaces : \A j \in spaces : k <= j
    IN  IF rest = <<>> THEN <<>>
        ELSE <<SubSeq(rest, 1, end - 1)>>
                 \o SplitWords(SubSeq(rest, end, Len(rest)))

\* (line.strip() for line in file_input if line.strip() != '')
NonBlankLines(chars) ==
    LET lines == SplitLines(chars)
        stripped == [k \in 1 .. Len(lines) |-> Strip(lines[k])]
    IN  SelectSeq(stripped, LAMBDA line : line # <<>>)

\* int(next(line_iter)) at position pos of the lines
ReadInt(lines, pos) ==
    IF pos > Len(lines) THEN Raise("StopIteration")
    ELSE ParseInt(lines[pos])

\* [int(j) for j in line.split()]
RECURSIVE ParseInts(_)
ParseInts(words) ==
    IF words = <<>> THEN Ok(<<>>)
    ELSE LET first == ParseInt(Head(words))
         IN  IF ~first.ok THEN first
             ELSE LET rest == ParseInts(Tail(words))
                  IN  IF ~rest.ok THEN rest
                      ELSE Ok(<<first.val>> \o rest.val)

\* the loop of __read_demand and of __read_transition_cost: count rows of
\* the given width from position pos on, keyed 0, 1, ...
RECURSIVE ReadRows(_, _, _, _, _)
ReadRows(lines, pos, count, width, rows) ==
    IF Len(rows) >= count THEN Ok(rows)
    ELSE IF pos > Len(lines) THEN Raise("StopIteration")
    ELSE LET row == ParseInts(SplitWords(lines[pos]))
         IN  IF ~row.ok THEN row
             ELSE IF Len(row.val) # width THEN Raise("AssertionError")
             ELSE ReadRows(lines, pos + 1, count, width,
                           Append(rows, row.val))

\* a list of rows as the dict keyed by range(len(rows))
AsDict(rows) == [i \in Range(Len(rows)) |-> rows[i + 1]]

\* the number of rows range(num_types) reads
RowCount(num_types) == IF num_types < 0 THEN 0 ELSE num_types

\* Input.read_file on the content of the file
read_file(chars) ==
    LET lines == NonBlankLines(chars)
        times == ReadInt(lines, 1)
        types == ReadInt(lines, 2)
    IN  IF ~times.ok THEN times
        ELSE IF ~types.ok THEN types
        ELSE LET count == RowCount(types.val)
                 demand == ReadRows(lines, 3, count, times.val, <<>>)
                 inventory == ReadInt(lines, 3 + count)
                 transition == ReadRows(lines, 4 + count, count, types.val,
                                        <<>>)
             IN  IF ~demand.ok THEN demand
                 ELSE IF ~inventory.ok THEN inventory
                 ELSE IF ~transition.ok THEN transition
                 ELSE Ok([num_time_periods |-> times.val,
                          num_types |-> types.val,
                          demand |-> AsDict(demand.val),
                          inventory_cost |-> inventory.val,
                          transition_cost |-> AsDict(transition.val)])

(***************************************************************************)
(* SpecFile: reading a file, printing the instance, reading it back.       *)
(***************************************************************************)
\* the instance of the test fixture
ReferenceInstance ==
    [num_time_periods |-> 6,
     num_types |-> 3,
     demand |-> AsDict(<<<<1, 0, 0, 0, 1, 0>>,
                         <<0, 1, 0, 0, 1, 0>>,
                         <<0, 0, 0, 0, 0, 1>>>>),
     inventory_cost |-> 10,
     transition_cost |-> AsDict(<<<<0, 1, 1>>, <<3, 0, 2>>, <<4, 5, 0>>>>)]

\* a row of a file: its numbers separated by one space
RowToStr(list) ==
    Join(<<" ">>, [k \in 1 .. Len(list) |-> IntToStr(list[k])])

\* the lines of the file of an instance, with the given first line
FileLines(self, times) ==
    <<IntToStr(times), IntToStr(self.num_types)>>
        \o [k \in 1 .. self.num_types |-> RowToStr(self.demand[k - 1])]
        \o <<IntToStr(self.inventory_cost)>>
        \o [k \in 1 .. self.num_types |->
               RowToStr(self.transition_cost[k - 1])]

\* the file of an instance: one line each, with blank lines between them
\* when gaps is set
FileOf(self, times, gaps) ==
    LET lines == FileLines(self, times)
        ending == IF gaps THEN <<NewLine, " ", NewLine>> ELSE <<NewLine>>
    IN  Join(<<>>, [k \in 1 .. Len(lines) |-> lines[k] \o ending])

\* a file without its last line
WithoutLastLine(self) ==
    LET lines == FileLines(self, self.num_time_periods)
    IN  Join(<<NewLine>>, SubSeq(lines, 1, Len(lines) - 1))

\* the files read: well-formed ones, ones whose first line announces one
\* period too many, and ones that end early
Files ==
    LET instances == DemandInstances \cup CostInstances
                         \cup {ReferenceInstance}
    IN  {FileOf(i, i.num_time_periods, gaps) :
             i \in instances, gaps \in BOOLEAN}
            \cup {FileOf(i, i.num_time_periods + 1, FALSE) : i \in instances}
            \cup {WithoutLastLine(i) : i \in instances}

\* the fields Input.__init__ sets, before a file is read
NoInstance ==
    [num_time_periods |-> 0, num_types |-> 0, demand |-> <<>>,
     inventory_cost |-> 0, transition_cost |-> <<>>]

InitFile ==
    /\ text \in Files
    /\ ins = NoInstance
    /\ schedule = <<>>
    /\ query = NoQuery
    /\ ret = NoCall
    /\ mip = NoMip

\* Input.read_file(file)
ReadFile ==
    /\ ret.op = "none"
    /\ LET res == read_file(text)
       IN  /\ ret' = Call("read_file", 0, 0, res)
           /\ ins' = IF res.ok THEN res.val ELSE ins
    /\ UNCHANGED <<schedule, query, text, mip>>

\* str(instance), written to a file
WriteStr ==
    /\ ret.op = "read_file"
    /\ ret.res.ok
    /\ text' = Str(ins)
    /\ ret' = Call("__str__", 0, 0, Ok(0))
    /\ UNCHANGED <<ins, schedule, query, mip>>

\* Input.read_file on the text str(instance) gave
ReadBack ==
    /\ ret.op = "__str__"
    /\ ret' = Call("read_back", 0, 0, read_file(text))
    /\ UNCHANGED <<ins, schedule, query, text, mip>>

NextFile ==
    \/ ReadFile
    \/ WriteStr
    \/ ReadBack

SpecFile == InitFile /\ [][NextFile]_vars

(***************************************************************************)
(* class MipModel: the variables, the constraints and the objective.  An   *)
(* assignment gives every variable its solution value: production, state  *)
(* and stock keyed by <<machine_type, time_period>>, transition keyed by   *)
(* <<type_i, type_j, time_period>>.                                        *)
(***************************************************************************)
\* the keys of the production and of the state variables
ProductionKeys(self) == Range(self.num_types) \X Range(self.num_time_periods)

\* the keys of the stock variables: the periods -1 .. num_time_periods - 1
StockKeys(self) ==
    Range(self.num_types) \X (-1 .. (self.num_time_periods - 1))

\* the keys of the transition variables: the periods 1 .. num_time_periods - 1
TransitionKeys(self) ==
    Range(self.num_types) \X Range(self.num_types)
        \X (1 .. (self.num_time_periods - 1))

\* the values of a BoolVar
BoolValues == 0 .. 1

\* the lower bound lb=0. of a stock variable
StockBound(a, machine_type, time_period) ==
    a.stock[<<machine_type, time_period>>] >= 0

\* init_stock_<machine_type>
InitialStockConstraint(a, machine_type) ==
    a.stock[<<machine_type, -1>>] = 0

\* demand_<machine_type>_<time_period>
DemandConstraint(self, a, machine_type, time_period) ==
    a.stock[<<machine_type, time_period - 1>>]
            + a.production[<<machine_type, time_period>>]
        = get_demand(self, machine_type, time_period).val
            + a.stock[<<machine_type, time_period>>]

\* state_<machine_type>_<time_period>
StateConstraint(a, machine_type, time_period) ==
    a.production[<<machine_type, time_period>>]
        <= a.state[<<machine_type, time_period>>]

\* config_<time_period> with >= for ==: at least one configuration
ConfigurationAtLeastOne(self, a, time_period) ==
    SumOver([machine_type \in Range(self.num_types) |->
                a.state[<<machine_type, time_period>>]],
            0, self.num_types - 1) >= 1

\* config_<time_period>
ConfigurationConstraint(self, a, time_period) ==
    SumOver([machine_type \in Range(self.num_types) |->
                a.state[<<machine_type, time_period>>]],
            0, self.num_types - 1) = 1

\* transition_<type_i>_<type_j>_<time_period> with - 2 for - 1
TransitionConstraintLoose(a, type_i, type_j, time_period) ==
    a.transition[<<type_i, type_j, time_period>>]
        >= a.state[<<type_i, time_period - 1>>]
               + a.state[<<type_j, time_period>>] - 2

\* transition_<type_i>_<type_j>_<time_period>
TransitionConstraint(a, type_i, type_j, time_period) ==
    a.transition[<<type_i, type_j, time_period>>]
        >= a.state[<<type_i, time_period - 1>>]
               + a.state[<<type_j, time_period>>] - 1

\* every constraint build_mip adds, and the bounds of the stock variables
Constraints(self, a) ==
    /\ \A machine_type \in Range(self.num_types) :
           InitialStockConstraint(a, machine_type)
    /\ \A key \in ProductionKeys(self) :
           /\ DemandConstraint(self, a, key[1], key[2])
           /\ StateConstraint(a, key[1], key[2])
    /\ \A time_period \in Range(self.num_time_periods) :
           ConfigurationConstraint(self, a, time_period)
    /\ \A key \in TransitionKeys(self) :
           TransitionConstraint(a, key[1], key[2], key[3])
    /\ \A key \in StockKeys(self) : StockBound(a, key[1], key[2])

\* StockObjective with the last period left out
StockObjectiveShort(self, a) ==
    SumOver([machine_type \in Range(self.num_types) |->
                SumOver([time_period \in Range(self.num_time_periods - 1) |->
                            self.inventory_cost
                                * a.stock[<<machine_type, time_period>>]],
                        0, self.num_time_periods - 2)],
            0, self.num_types - 1)

\* the stock term of the objective
StockObjective(self, a) ==
    SumOver([machine_type \in Range(self.num_types) |->
                SumOver([time_period \in Range(self.num_time_periods) |->
                            self.inventory_cost
                                * a.stock[<<machine_type, time_period>>]],
                        0, self.num_time_periods - 1)],
            0, self.num_types - 1)

\* the transition term of the objective: the pairs type_i != type_j
TransitionObjective(self, a) ==
    SumOver([type_i \in Range(self.num_types) |->
                SumOver([type_j \in Range(self.num_types) |->
                            IF type_i = type_j THEN 0
                            ELSE SumOver(
                                     [time_period \in
                                          1 .. (self.num_time_periods - 1) |->
                                         self.transition_cost[type_i][type_j + 1]
                                             * a.transition[<<type_i, type_j,
                                                              time_period>>]],
                                     1, self.num_time_periods - 1)],
                        0, self.num_types - 1)],
            0, self.num_types - 1)

\* the objective function build_mip minimizes
Objective(self, a) == StockObjective(self, a) + TransitionObjective(self, a)
(***************************************************************************)
(* solver.Solve().  The solver is a library: it returns an assignment of   *)
(* the variables within their bounds that satisfies every constraint, and  *)
(* reports OPTIMAL exactly when no such assignment has a smaller           *)
(* objective.  The assignments are enumerated period by period: every      *)
(* combination of values of the period's variables is a candidate, and the *)
(* constraints of the period select among them.  With demands of 0 and 1  *)
(* and boolean production a stock moves by at most one per period.         *)
(***************************************************************************)
\* every assignment of the period's boolean variables of one kind
BoolColumns(self) == [Range(self.num_types) -> BoolValues]

\* the variables of one period: a value for every type
PeriodAssignment(time_period, production, state, stock) ==
    [production |-> [key \in {<<t, time_period>> : t \in DOMAIN production} |->
                        production[key[1]]],
     state |-> [key \in {<<t, time_period>> : t \in DOMAIN state} |->
                   state[key[1]]],
     stock |-> [key \in {<<t, time_period>> : t \in DOMAIN stock} |->
                   stock[key[1]]],
     transition |-> <<>>]

\* the variables of one type in one period, and its stock one period before
TypeAssignment(machine_type, time_period, production, previous, stock) ==
    [production |-> [key \in {<<machine_type, time_period>>} |-> production],
     state |-> <<>>,
     stock |-> [key \in {<<machine_type, time_period - 1>>,
                         <<machine_type, time_period>>} |->
                   IF key[2] = time_period THEN stock ELSE previous],
     transition |-> <<>>]

\* the columns that take from every type one of its values
ColumnsWithin(values) ==
    {column \in [DOMAIN values -> UNION {values[t] : t \in DOMAIN values}] :
        \A t \in DOMAIN values : column[t] \in values[t]}

\* the stock of period -1 of every type: the columns of the variables
\* chosen so far, one column per period
InitialColumns(self) ==
    {[production |-> <<>>, state |-> <<>>, stock |-> <<stock>>] :
        stock \in {column \in [Range(self.num_types) -> -1 .. 1] :
                     LET a == PeriodAssignment(-1, <<>>, <<>>, column)
                     IN  \A machine_type \in Range(self.num_types) :
                             /\ InitialStockConstraint(a, machine_type)
                             /\ StockBound(a, machine_type, -1)}}

\* the production and state columns of a period
Configured(self, time_period) ==
    {xy \in BoolColumns(self) \X BoolColumns(self) :
        LET a == PeriodAssignment(time_period, xy[1], xy[2], <<>>)
        IN  /\ \A t \in Range(self.num_types) :
                   StateConstraint(a, t, time_period)
            /\ ConfigurationConstraint(self, a, time_period)}

\* the columns chosen so far, extended by one period
ExtendPeriod(self, columns, time_period, configured) ==
    LET types == Range(self.num_types)
        previous == columns.stock[time_period + 1]
        stocks ==
            [t \in types |->
                [production \in BoolValues |->
                    {stock \in (previous[t] - 1) .. (previous[t] + 1) :
                        LET a == TypeAssignment(t, time_period, production,
                                                previous[t], stock)
                        IN  /\ DemandConstraint(self, a, t, time_period)
                            /\ StockBound(a, t, time_period)}]]
    IN  UNION {{[production |-> Append(columns.production, xy[1]),
                 state |-> Append(columns.state, xy[2]),
                 stock |-> Append(columns.stock, stock)] :
                   stock \in ColumnsWithin([t \in types |->
                                               stocks[t][xy[1][t]]])} :
                 xy \in configured}

\* the columns of the variables of every period
RECURSIVE ExtendFrom(_, _, _)
ExtendFrom(self, partial, time_period) ==
    IF time_period >= self.num_time_periods THEN partial
    ELSE LET configured == Configured(self, time_period)
         IN  ExtendFrom(self,
                        UNION {ExtendPeriod(self, columns, time_period,
                                            configured) :
                                  columns \in partial},
                        time_period + 1)

\* the assignment of the production, state and stock variables that the
\* columns hold
Assigned(self, columns) ==
    [production |-> [key \in ProductionKeys(self) |->
                        columns.production[key[2] + 1][key[1]]],
     state |-> [key \in ProductionKeys(self) |->
                   columns.state[key[2] + 1][key[1]]],
     stock |-> [key \in StockKeys(self) |->
                   columns.stock[key[2] + 2][key[1]]],
     transition |-> <<>>]

\* the transition variables the states of a force to one
Forced(self, a) ==
    {key \in TransitionKeys(self) :
        a.state[<<key[1], key[3] - 1>>] + a.state[<<key[2], key[3]>>] - 1 >= 1}

\* the values of the transition variables tried for a: none of them set,
\* the forced ones set, and all of them set
TransitionChoices(self, a) ==
    {[key \in TransitionKeys(self) |-> IF key \in set THEN 1 ELSE 0] :
        set \in {{}, Forced(self, a), TransitionKeys(self)}}

\* the assignments that satisfy every constraint
Solutions(self) ==
    LET complete ==
            UNION {LET a == Assigned(self, columns)
                   IN  {[a EXCEPT !.transition = transition] :
                           transition \in TransitionChoices(self, a)} :
                      columns \in ExtendFrom(self, InitialColumns(self), 0)}
    IN  {a \in complete :
            \A key \in TransitionKeys(self) :
                TransitionConstraint(a, key[1], key[2], key[3])}

\* the smallest objective of an assignment that satisfies every constraint
Optimum(self, solutions) ==
    LET values == {Objective(self, a) : a \in solutions}
    IN  CHOOSE v \in values : \A w \in values : v <= w
(***************************************************************************)
(* create_schedule of main.py, and the run of main: build the model,       *)
(* solve it, decode the schedule, evaluate the schedule.                   *)
(***************************************************************************)
\* epsilon = 0.01, in hundredths
EpsilonHundredths == 1

\* value > 1. - epsilon
NearOne(value) == 100 * value > 100 - EpsilonHundredths

\* the types in increasing order whose entry of values is close to one
RECURSIVE ProducedTypes(_, _, _)
ProducedTypes(values, machine_type, num_types) ==
    IF machine_type >= num_types THEN <<>>
    ELSE (IF NearOne(values[machine_type]) THEN <<machine_type>> ELSE <<>>)
             \o ProducedTypes(values, machine_type + 1, num_types)

\* the loop of create_schedule from time_period on
RECURSIVE CreateLoop(_, _, _, _)
CreateLoop(self, a, time_period, sched) ==
    IF time_period >= self.num_time_periods THEN Ok(sched)
    ELSE LET solution_values ==
                 [machine_type \in Range(self.num_types) |->
                     a.production[<<machine_type, time_period>>]]
             produced_type ==
                 ProducedTypes(solution_values, 0, self.num_types)
         IN  IF Len(produced_type) = 1
             THEN CreateLoop(self, a, time_period + 1,
                             [sched EXCEPT ![time_period + 1] =
                                 produced_type[1]])
             ELSE IF Len(produced_type) > 1 THEN Raise("RuntimeError")
             ELSE CreateLoop(self, a, time_period + 1, sched)

create_schedule(self, a) ==
    CreateLoop(self, a, 0, Repeat(Idle, self.num_time_periods))

InitMip ==
    /\ ins \in DemandInstances
    /\ schedule = <<>>
    /\ query = NoQuery
    /\ ret = NoCall
    /\ text = <<>>
    /\ mip = NoMip

\* MipModel(input) and build_mip()
BuildMip ==
    /\ mip.phase = "none"
    /\ mip' = [mip EXCEPT !.phase = "built"]
    /\ UNCHANGED <<ins, schedule, query, ret, text>>

\* what solver.Solve() can leave in the model
SolveOutcomes(self) ==
    LET solutions == {a \in Solutions(self) : Constraints(self, a)}
    IN  IF solutions = {}
        THEN {[NoMip EXCEPT !.phase = "solved", !.status = "INFEASIBLE"]}
        ELSE LET optimum == Optimum(self, solutions)
             IN  {[phase |-> "solved",
                   status |-> IF Objective(self, a) = optimum
                              THEN "OPTIMAL" ELSE "FEASIBLE",
                   assignment |-> a,
                   objective |-> Objective(self, a)] : a \in solutions}

\* solver.Solve()
Solve ==
    /\ mip.phase = "built"
    /\ mip' \in SolveOutcomes(ins)
    /\ UNCHANGED <<ins, schedule, query, ret, text>>

\* create_schedule(model, input)
CreateSchedule ==
    /\ mip.phase = "solved"
    /\ mip.status \in {"OPTIMAL", "FEASIBLE"}
    /\ LET res == create_schedule(ins, mip.assignment)
       IN  /\ ret' = Call("create_schedule", 0, 0, res)
           /\ schedule' = IF res.ok THEN res.val ELSE schedule
           /\ mip' = [mip EXCEPT !.phase = IF res.ok THEN "decoded"
                                           ELSE "failed"]
    /\ UNCHANGED <<ins, query, text>>

\* is_feasible on the decoded schedule
FeasibleDecoded == mip.phase = "decoded" /\ IsFeasible

\* compute_costs on the decoded schedule
CostsDecoded == mip.phase = "decoded" /\ ComputeCosts

NextMip ==
    \/ BuildMip
    \/ Solve
    \/ CreateSchedule
    \/ FeasibleDecoded
    \/ CostsDecoded

SpecMip == InitMip /\ [][NextMip]_vars

\* the run of main on the instance of the test fixture
InitReference ==
    /\ ins = ReferenceInstance
    /\ schedule = <<>>
    /\ query = NoQuery
    /\ ret = NoCall
    /\ text = <<>>
    /\ mip = NoMip

SpecReference == InitReference /\ [][NextMip]_vars
\* instances of MaxPeriods periods and num_types types, of every demand that
\* can be met and every transition cost
OptimumInstances(num_types) ==
    [num_time_periods : {MaxPeriods},
     num_types : {num_types},
     demand : {d \in Demands(num_types, MaxPeriods) :
                  Satisfiable(d, num_types, MaxPeriods)},
     inventory_cost : {InventoryCost},
     transition_cost : TransitionCosts(num_types)]

\* one type more than MaxTypes: a third type to pass through
InitOptimum ==
    /\ ins \in OptimumInstances(MaxTypes + 1)
    /\ schedule = <<>>
    /\ query = NoQuery
    /\ ret = NoCall
    /\ text = <<>>
    /\ mip = NoMip

NextOptimum ==
    \/ BuildMip
    \/ Solve

SpecOptimum == InitOptimum /\ [][NextOptimum]_vars
(***************************************************************************)
(* SpecStock: the inventory cost of the schedules is_feasible accepts, on   *)
(* instances with and without an inventory cost.                           *)
(***************************************************************************)
\* the instances of every demand that can be met, with the inventory cost 0
\* and with the inventory cost InventoryCost
StockInstances ==
    {[self EXCEPT !.inventory_cost = inventory_cost] :
        self \in DemandInstances, inventory_cost \in {0, InventoryCost}}

InitStock ==
    /\ ins \in StockInstances
    /\ schedule \in FeasibleSchedules(ins)
    /\ query = NoQuery
    /\ ret = NoCall
    /\ text = <<>>
    /\ mip = NoMip

NextStock ==
    \/ IsFeasible
    \/ ComputeInventoryCost

SpecStock == InitStock /\ [][NextStock]_vars

(***************************************************************************)
(* What the claims are stated with: counts and sums over sets of periods,  *)
(* computed apart from the loops of the code.                              *)
(***************************************************************************)
\* the periods 0..p in which the schedule produces machine type t
ProducedPeriods(sched, t, p) ==
    {q \in 0 .. p : q < Len(sched) /\ sched[q + 1] = t}

\* the periods 0..p in which machine type t is due
DuePeriods(self, t, p) ==
    {q \in 0 .. p : self.demand[t][q + 1] = 1}

LastPeriod(self) == self.num_time_periods - 1

\* no machine type has a backlog in any period
NoBacklog(self, sched) ==
    \A t \in Range(self.num_types), p \in Range(self.num_time_periods) :
        Cardinality(ProducedPeriods(sched, t, p))
            >= Cardinality(DuePeriods(self, t, p))

\* the k-th smallest element of a set of numbers, k = 1, 2, ...
KthSmallest(S, k) ==
    CHOOSE x \in S : Cardinality({y \in S : y < x}) = k - 1

\* all the periods of a schedule in which it produces machine type t
AllProduced(sched, t) == ProducedPeriods(sched, t, Len(sched) - 1)

AllDue(self, t) == DuePeriods(self, t, LastPeriod(self))

\* some machine type is produced in fewer periods than it has due dates
UnderProduced(self, sched) ==
    \E t \in Range(self.num_types) :
        Cardinality(AllProduced(sched, t)) < Cardinality(AllDue(self, t))

\* the due period the k-th earliest production of machine type t is paired with
PairedDue(self, t, k) ==
    IF k <= Cardinality(AllDue(self, t))
    THEN KthSmallest(AllDue(self, t), k)
    ELSE LastPeriod(self)

\* due_k - produced_k of the k-th earliest production of machine type t
PairDifference(self, sched, t, k) ==
    PairedDue(self, t, k) - KthSmallest(AllProduced(sched, t), k)

\* the sum over the machine types of the paired differences
PairedSum(self, sched) ==
    SumOver([t \in Range(self.num_types) |->
                SumOver([k \in 1 .. Cardinality(AllProduced(sched, t)) |->
                            PairDifference(self, sched, t, k)],
                        1, Cardinality(AllProduced(sched, t)))],
            0, self.num_types - 1)

(***************************************************************************)
(* C1: is_feasible fails with a length-mismatch error when the schedule's  *)
(* length is not num_time_periods; otherwise it returns true if and only   *)
(* if, for every type t and period p, the number of periods q <= p that    *)
(* produce t is at least the demand of t summed over the periods 0..p.     *)
(***************************************************************************)
C1_IsFeasible ==
    ret.op = "is_feasible" =>
        IF Len(schedule) # ins.num_time_periods
        THEN ~ret.res.ok /\ ret.res.err = "InputError"
        ELSE ret.res.ok /\ (ret.res.val <=> NoBacklog(ins, schedule))

\* is_feasible accepted a schedule with an idle period on an instance in
\* which some machine type is due twice
C1_Witness ==
    /\ ret.op = "is_feasible"
    /\ ret.res.ok
    /\ ret.res.val
    /\ \E k \in 1 .. Len(schedule) : schedule[k] = Idle
    /\ \E t \in Range(ins.num_types) : Cardinality(AllDue(ins, t)) >= 2

(***************************************************************************)
(* C5: for every schedule in which each type is produced at least as often *)
(* as it is due, compute_inventory_cost is inventory_cost times the sum,   *)
(* over the types, of due_k - produced_k, the k-th earliest production     *)
(* paired with the k-th earliest due period and every production beyond    *)
(* the due dates paired with period num_time_periods - 1; no difference    *)
(* is clamped.                                                             *)
(***************************************************************************)
C5_InventoryCostPairs ==
    (ret.op = "compute_inventory_cost" /\ ~UnderProduced(ins, schedule)) =>
        /\ ret.res.ok
        /\ ret.res.val = ins.inventory_cost * PairedSum(ins, schedule)

\* an inventory cost made of a negative difference (a production after its
\* due period) and of a production beyond the due dates
C5_Witness ==
    /\ ret.op = "compute_inventory_cost"
    /\ ~UnderProduced(ins, schedule)
    /\ ret.res.ok
    /\ \E t \in Range(ins.num_types) :
          \E k \in 1 .. Cardinality(AllProduced(schedule, t)) :
              PairDifference(ins, schedule, t, k) < 0
    /\ \E t \in Range(ins.num_types) :
          Cardinality(AllProduced(schedule, t))
              > Cardinality(AllDue(ins, t))

(***************************************************************************)
(* C6: is_feasible is monotonic in production: when it accepts a schedule, *)
(* it accepts every schedule got from it by producing some type in one of  *)
(* its idle periods.                                                       *)
(***************************************************************************)
C6_FeasibleMonotonic ==
    (ret.op = "is_feasible" /\ ret.res.ok /\ ret.res.val) =>
        \A p \in 1 .. Len(schedule), t \in Range(ins.num_types) :
            schedule[p] = Idle =>
                LET more == is_feasible(ins, [schedule EXCEPT ![p] = t])
                IN  more.ok /\ more.val

\* an accepted schedule with an idle period, on an instance with demand
C6_Witness ==
    /\ ret.op = "is_feasible"
    /\ ret.res.ok
    /\ ret.res.val
    /\ \E p \in 1 .. Len(schedule) : schedule[p] = Idle
    /\ \E p \in 1 .. Len(schedule) : schedule[p] # Idle
    /\ \E t \in Range(ins.num_types) : AllDue(ins, t) # {}

(***************************************************************************)
(* C10: compute_inventory_cost fails with an assertion error exactly when  *)
(* some type is produced in fewer periods than it has due dates; so it     *)
(* never fails for a schedule is_feasible accepts, and compute_costs fails *)
(* in exactly the same cases.                                              *)
(***************************************************************************)
C10_AssertionExactlyUnderProduction ==
    ret.op \in {"compute_inventory_cost", "compute_costs"} =>
        /\ ~ret.res.ok <=> UnderProduced(ins, schedule)
        /\ ~ret.res.ok => ret.res.err = "AssertionError"
        /\ LET feasible == is_feasible(ins, schedule)
           IN  (feasible.ok /\ feasible.val) => ret.res.ok

\* compute_costs failed on an under-producing schedule of the right length
C10_Witness ==
    /\ ret.op = "compute_costs"
    /\ ~ret.res.ok
    /\ Len(schedule) = ins.num_time_periods
    /\ UnderProduced(ins, schedule)

(***************************************************************************)
(* C8: get_demand and get_overall_demand fail with a range error whenever  *)
(* the period is >= num_time_periods or the type is >= num_types; in range *)
(* get_demand returns demand[type][period] and get_overall_demand the sum  *)
(* of demand[type][0..period], which is non-decreasing in the period and   *)
(* grows by get_demand(type, period) from period - 1 to period.            *)
(***************************************************************************)
C8_DemandQueries ==
    ret.op \in {"get_demand", "get_overall_demand"} =>
        LET t == ret.machine_type
            p == ret.time_period
        IN  /\ (p >= ins.num_time_periods \/ t >= ins.num_types) =>
                   ~ret.res.ok /\ ret.res.err = "InputError"
            /\ (t \in Range(ins.num_types) /\ p \in Range(ins.num_time_periods)) =>
                   /\ ret.res.ok
                   /\ ret.op = "get_demand" =>
                          ret.res.val = ins.demand[t][p + 1]
                   /\ ret.op = "get_overall_demand" =>
                          /\ ret.res.val = Cardinality(DuePeriods(ins, t, p))
                          /\ p >= 1 =>
                                LET before == get_overall_demand(ins, t, p - 1)
                                    here == get_demand(ins, t, p)
                                IN  /\ before.ok /\ here.ok
                                    /\ ret.res.val >= before.val
                                    /\ ret.res.val - before.val = here.val

\* get_overall_demand summed two due periods, the later one the period asked
C8_Witness ==
    /\ ret.op = "get_overall_demand"
    /\ ret.res.ok
    /\ ret.res.val = 2
    /\ ret.time_period >= 1
    /\ ret.machine_type \in Range(ins.num_types)
    /\ ins.demand[ret.machine_type][ret.time_period + 1] = 1

(***************************************************************************)
(* C4: idle periods are transparent to compute_transition_cost: the result *)
(* is the sum of transition_cost[a][b] over the consecutive pairs (a, b),  *)
(* a # b, of the schedule with its idle entries removed; the first         *)
(* non-idle entry costs nothing and inserting an idle period anywhere      *)
(* leaves the result unchanged.                                            *)
(***************************************************************************)
\* the schedule without its idle entries
WithoutIdle(sched) == SelectSeq(sched, LAMBDA x : x # Idle)

\* the cost of the changes of type between consecutive entries
ChangeCost(self, types) ==
    SumOver([k \in 1 .. (Len(types) - 1) |->
                IF types[k] # types[k + 1]
                THEN self.transition_cost[types[k]][types[k + 1] + 1]
                ELSE 0],
            1, Len(types) - 1)

\* the schedule with an idle period inserted after its first k entries
InsertIdle(sched, k) ==
    SubSeq(sched, 1, k) \o <<Idle>> \o SubSeq(sched, k + 1, Len(sched))

C4_IdleTransparent ==
    ret.op = "compute_transition_cost" =>
        /\ ret.res.ok
        /\ ret.res.val = ChangeCost(ins, WithoutIdle(schedule))
        /\ \A k \in 0 .. Len(schedule) :
               compute_transition_cost(ins, InsertIdle(schedule, k)).val
                   = ret.res.val

\* the schedules [0, 0, 1] and [0, -1, 0, 1] both cost the one transition
\* from type 0 to type 1
C4_Witness ==
    /\ ret.op = "compute_transition_cost"
    /\ schedule = <<0, 0, 1>>
    /\ InsertIdle(schedule, 1) = <<0, Idle, 0, 1>>
    /\ ins.transition_cost[0][2] = 1
    /\ ins.transition_cost[1][1] = 1
    /\ ret.res.val = ins.transition_cost[0][2]
    /\ compute_transition_cost(ins, <<0, Idle, 0, 1>>).val = ret.res.val

(***************************************************************************)
(* C7: round trip: for every instance read_file produces, printing it with *)
(* __str__ and reading that text with read_file succeeds and yields an     *)
(* instance with the same num_time_periods, num_types, demand,             *)
(* inventory_cost and transition_cost.                                     *)
(***************************************************************************)
C7_RoundTrip ==
    ret.op = "read_back" => (ret.res.ok /\ ret.res.val = ins)

\* what the code does instead: reading the printed text back succeeds only
\* for an instance without machine types, and fails on the brackets of the
\* printed rows otherwise
C7_ReadBackFails ==
    ret.op = "read_back" =>
        IF ins.num_types >= 1
        THEN ~ret.res.ok /\ ret.res.err = "ValueError"
        ELSE ret.res.ok /\ ret.res.val = ins

(***************************************************************************)
(* C9: every assignment that satisfies the constraints of the MIP has at   *)
(* most one production variable equal to 1 in each period; create_schedule *)
(* then never raises its RuntimeError, and is_feasible accepts the         *)
(* schedule it decodes.                                                    *)
(***************************************************************************)
ProducedIn(self, a, time_period) ==
    {machine_type \in Range(self.num_types) :
        a.production[<<machine_type, time_period>>] = 1}

C9_OneProductionPerPeriod ==
    /\ (mip.phase \in {"solved", "decoded", "failed"}
            /\ mip.status # "INFEASIBLE")
           => \A time_period \in Range(ins.num_time_periods) :
                  Cardinality(ProducedIn(ins, mip.assignment, time_period))
                      <= 1
    /\ mip.phase # "failed"
    /\ (mip.phase = "decoded" /\ ret.op = "create_schedule") => ret.res.ok
    /\ (mip.phase = "decoded" /\ ret.op = "is_feasible")
           => (ret.res.ok /\ ret.res.val = TRUE)

\* a non-optimal assignment of a two-type instance is decoded to a schedule
\* with an idle period, and is_feasible accepts the schedule
C9_Witness ==
    /\ mip.phase = "decoded"
    /\ mip.status = "FEASIBLE"
    /\ ins.num_types = 2
    /\ schedule = <<1, Idle, 0>>
    /\ ret.op = "is_feasible"
    /\ ret.res.ok
    /\ ret.res.val = TRUE

(***************************************************************************)
(* C2: on the instance of the test fixture, the schedule decoded from the  *)
(* production variables of any optimal assignment is accepted by           *)
(* is_feasible, and compute_costs of it is the optimal objective value.    *)
(***************************************************************************)
C2_ReferenceOptimum ==
    (ins = ReferenceInstance /\ mip.status = "OPTIMAL")
        => /\ mip.phase # "failed"
           /\ (mip.phase = "decoded" /\ ret.op = "is_feasible")
                  => (ret.res.ok /\ ret.res.val = TRUE)
           /\ (mip.phase = "decoded" /\ ret.op = "compute_costs")
                  => (ret.res.ok /\ ret.res.val = mip.objective)

\* the optimal assignment of the fixture has the objective 15, and
\* compute_costs of its schedule is 15
C2_Witness ==
    /\ ins = ReferenceInstance
    /\ mip.status = "OPTIMAL"
    /\ mip.phase = "decoded"
    /\ mip.objective = 15
    /\ ret.op = "compute_costs"
    /\ ret.res.ok
    /\ ret.res.val = 15

(***************************************************************************)
(* C3: for an instance with a schedule that is_feasible accepts, the       *)
(* smallest objective of an assignment satisfying the constraints of the   *)
(* MIP is the smallest compute_costs of a schedule that is_feasible        *)
(* accepts.                                                                *)
(***************************************************************************)
MinimumCost(self) ==
    LET costs == {compute_costs(self, sched).val :
                     sched \in FeasibleSchedules(self)}
    IN  CHOOSE v \in costs : \A w \in costs : v <= w

C3_SameOptimum ==
    (mip.status = "OPTIMAL" /\ FeasibleSchedules(ins) # {})
        => mip.objective = MinimumCost(ins)

(***************************************************************************)
(* C11: get_demand and get_overall_demand check no lower bound: called     *)
(* with a negative type index or a negative period index they raise no     *)
(* error and return a value selected from the end of the storage.          *)
(* C11_NegativeSilent is the sentence as it stands; C11_NegativeArguments  *)
(* is what holds: a negative type raises KeyError, since demand is a dict  *)
(* keyed 0..num_types-1; with a type in range get_demand counts a period  *)
(* -num_time_periods..-1 from the end and raises IndexError below that,    *)
(* and get_overall_demand never raises: it returns 0 for the period -1     *)
(* and the sum of demand[type][0..num_time_periods+period] below that.     *)
(***************************************************************************)
\* the call had a negative argument and passed the two upper-bound checks
NegativeCall ==
    /\ ret.op \in {"get_demand", "get_overall_demand"}
    /\ ret.time_period < ins.num_time_periods
    /\ ret.machine_type < ins.num_types
    /\ (ret.machine_type < 0 \/ ret.time_period < 0)

\* the index a negative index selects when counted from the end
FromEnd(index, length) == IF index < 0 THEN index + length ELSE index

C11_NegativeSilent ==
    NegativeCall =>
        /\ ret.res.ok
        /\ ret.op = "get_demand" =>
               ret.res.val =
                   ins.demand[FromEnd(ret.machine_type, ins.num_types)]
                             [FromEnd(ret.time_period, ins.num_time_periods) + 1]

C11_NegativeArguments ==
    NegativeCall =>
        IF ret.machine_type < 0
        THEN ~ret.res.ok /\ ret.res.err = "KeyError"
        ELSE IF ret.op = "get_demand"
        THEN IF ret.time_period >= -ins.num_time_periods
             THEN /\ ret.res.ok
                  /\ ret.res.val =
                         ins.demand[ret.machine_type]
                                   [ins.num_time_periods + ret.time_period + 1]
             ELSE ~ret.res.ok /\ ret.res.err = "IndexError"
        ELSE /\ ret.res.ok
             /\ ret.res.val =
                    IF ret.time_period = -1 THEN 0
                    ELSE SumOver(ins.demand[ret.machine_type], 1,
                                 ins.num_time_periods + ret.time_period + 1)

\* get_demand(0, -1) returned the 1 of the last period of a row that
\* starts with 0
C11_Witness ==
    /\ ret.op = "get_demand"
    /\ ret.machine_type = 0
    /\ ret.time_period = -1
    /\ ins.num_time_periods = 3
    /\ ins.demand[0] = <<0, 0, 1>>
    /\ ret.res.ok
    /\ ret.res.val = 1

(***************************************************************************)
(* C12: for every schedule is_feasible accepts, compute_inventory_cost is  *)
(* non-negative and is inventory_cost times the sum, over the types and    *)
(* the periods 0..num_time_periods-2, of the stock at the end of the       *)
(* period (produced so far minus due so far); so it equals the stock term  *)
(* of the MIP objective, which sums the stock over the periods             *)
(* 0..num_time_periods-1, exactly when the schedule has no excess          *)
(* production.  C12_StockTermExactly is the sentence as it stands;         *)
(* C12_StockTerm is what holds: the two are equal without excess           *)
(* production, and differ with it only when inventory_cost is positive.    *)
(***************************************************************************)
\* the stock of machine type t at the end of period p under a schedule
EndStock(self, sched, t, p) ==
    Cardinality(ProducedPeriods(sched, t, p))
        - Cardinality(DuePeriods(self, t, p))

\* the sum of the stock over the types and the periods 0..last
StockSum(self, sched, last) ==
    SumOver([t \in Range(self.num_types) |->
                SumOver([p \in 0 .. last |-> EndStock(self, sched, t, p)],
                        0, last)],
            0, self.num_types - 1)

\* no machine type is left on stock after the last period
NoExcess(self, sched) ==
    \A t \in Range(self.num_types) :
        EndStock(self, sched, t, LastPeriod(self)) = 0

\* the assignment of the MIP variables that produces as the schedule does:
\* the machine is in the state of the type it produces, and in the state of
\* type 0 when idle
ScheduleAssignment(self, sched) ==
    LET state == [key \in ProductionKeys(self) |->
                     IF sched[key[2] + 1] = Idle
                     THEN (IF key[1] = 0 THEN 1 ELSE 0)
                     ELSE (IF sched[key[2] + 1] = key[1] THEN 1 ELSE 0)]
    IN  [production |-> [key \in ProductionKeys(self) |->
                            IF sched[key[2] + 1] = key[1] THEN 1 ELSE 0],
         state |-> state,
         stock |-> [key \in StockKeys(self) |->
                       EndStock(self, sched, key[1], key[2])],
         transition |-> [key \in TransitionKeys(self) |->
                            IF state[<<key[1], key[3] - 1>>] = 1
                                   /\ state[<<key[2], key[3]>>] = 1
                            THEN 1 ELSE 0]]

\* compute_inventory_cost was called on a schedule that is_feasible accepts
AcceptedCost ==
    /\ ret.op = "compute_inventory_cost"
    /\ LET feasible == is_feasible(ins, schedule)
       IN  feasible.ok /\ feasible.val = TRUE

\* the schedule is the decoding of an assignment that satisfies the
\* constraints, and the cost is the stock summed up to the last period but one
StockTermBase ==
    LET a == ScheduleAssignment(ins, schedule)
    IN  /\ Constraints(ins, a)
        /\ create_schedule(ins, a) = Ok(schedule)
        /\ ret.res.ok
        /\ ret.res.val >= 0
        /\ ret.res.val
               = ins.inventory_cost
                     * StockSum(ins, schedule, ins.num_time_periods - 2)
        /\ NoExcess(ins, schedule)
               => ret.res.val = StockObjective(ins, a)

C12_StockTermExactly ==
    AcceptedCost =>
        /\ StockTermBase
        /\ ret.res.val
               = StockObjective(ins, ScheduleAssignment(ins, schedule))
               => NoExcess(ins, schedule)

C12_StockTerm ==
    AcceptedCost =>
        /\ StockTermBase
        /\ (ins.inventory_cost > 0
               /\ ret.res.val
                      = StockObjective(ins,
                                       ScheduleAssignment(ins, schedule)))
               => NoExcess(ins, schedule)
        /\ (ins.inventory_cost = 0 \/ NoExcess(ins, schedule))
               => ret.res.val
                      = StockObjective(ins, ScheduleAssignment(ins, schedule))

\* an accepted schedule that keeps an item on stock over a period and
\* produces one item in excess: the cost is positive and smaller than the
\* stock term of the MIP
C12_Witness ==
    /\ AcceptedCost
    /\ ins.inventory_cost > 0
    /\ ~NoExcess(ins, schedule)
    /\ ret.res.ok
    /\ ret.res.val > 0
    /\ ret.res.val < StockObjective(ins, ScheduleAssignment(ins, schedule))

====
